---------------------------- MODULE Spec2Model ----------------------------
(***************************************************************************)
(* A state-machine model of CartesianControllerBase<HardwareInterface>     *)
(* (cartesian_controller_base.hpp): init, starting, pause, resume,         *)
(* computeJointControlCmds, writeJointControlCmds and the three frame      *)
(* transform utilities, together with the hardware joints the controller   *)
(* reads and commands.                                                     *)
(*                                                                         *)
(* Numbers are integers.  A joint position is counted in quarter turns, so *)
(* that every rotation of the chain is a matrix of integers and the frame  *)
(* transforms are computed exactly.                                        *)
(***************************************************************************)
EXTENDS Integers, Sequences, FiniteSets, TLC

VARIABLES
  HardwareInterface,  \* the template argument of the instance
  ctl,                \* the controller object (its member variables)
  call,               \* the last member function called: its arguments, and what
                      \* it returned or, for a write, the setCommand calls it made
  ref,                \* the controller of the run without pause and resume
  ref_ret,            \* what the last call returned or emitted in that run
  paused_ticks,       \* the compute and write calls made while paused since the
                      \* controller was last paused, counted up to MaxPausedTicks
  computed_since_start \* whether m_simulated_joint_motion was assigned by a
                      \* computeJointControlCmds after the last init or starting

vars == <<HardwareInterface, ctl, call, ref, ref_ret, paused_ticks, computed_since_start>>

---------------------------------------------------------------------------
(* Bounds of the model *)

\* the longest m_joint_handles the model lets init build
MaxHandles == 3

\* ros::Duration periods of a compute step are 1..MaxPeriod
MaxPeriod == 2

\* the calls made while paused are counted up to this number
MaxPausedTicks == 2

---------------------------------------------------------------------------
(* Small vectors and matrices *)

Zero6 == <<0, 0, 0, 0, 0, 0>>

Zero3x3 == <<0, 0, 0, 0, 0, 0, 0, 0, 0>>

\* KDL::Rotation::Identity(), the value of a default constructed KDL::Frame's M
Identity == <<1, 0, 0, 0, 1, 0, 0, 0, 1>>

\* 3x3 matrices are row-major sequences of 9 entries, as KDL::Rotation::data
MatMul(A, B) == [k \in 1..9 |->
    LET r == (k - 1) \div 3
        col == (k - 1) % 3
    IN  A[3 * r + 1] * B[col + 1] + A[3 * r + 2] * B[col + 4] + A[3 * r + 3] * B[col + 7]]

Transpose(A) == [k \in 1..9 |-> A[3 * ((k - 1) % 3) + ((k - 1) \div 3) + 1]]

MatVec(A, v) == [r \in 1..3 |-> A[3 * r - 2] * v[1] + A[3 * r - 1] * v[2] + A[3 * r] * v[3]]

\* KDL::Rotation::Inverse(): the transpose
Inverse(M) == Transpose(M)

\* KDL: Rotation * Wrench rotates the force and the torque each by the rotation
RotateWrench(M, w) == MatVec(M, <<w[1], w[2], w[3]>>) \o MatVec(M, <<w[4], w[5], w[6]>>)

\* a rotation of q quarter turns about z, and about x
RotZ(q) == CASE q % 4 = 0 -> Identity
             [] q % 4 = 1 -> <<0, -1, 0, 1, 0, 0, 0, 0, 1>>
             [] q % 4 = 2 -> <<-1, 0, 0, 0, -1, 0, 0, 0, 1>>
             [] OTHER     -> <<0, 1, 0, -1, 0, 0, 0, 0, 1>>

RotX(q) == CASE q % 4 = 0 -> Identity
             [] q % 4 = 1 -> <<1, 0, 0, 0, 0, -1, 0, 1, 0>>
             [] q % 4 = 2 -> <<1, 0, 0, 0, -1, 0, 0, 0, -1>>
             [] OTHER     -> <<1, 0, 0, 0, 0, 1, 0, -1, 0>>

Clamp(x, lo, hi) == IF x < lo THEN lo ELSE IF x > hi THEN hi ELSE x

---------------------------------------------------------------------------
(* The robot: what /robot_description describes and what the hardware has *)

\* the joints of the robot model with their position limits (urdf limits)
RobotJoints == [j1 |-> [lower |-> -1, upper |-> 1], j2 |-> [lower |-> 0, upper |-> 2]]

JointNames == DOMAIN RobotJoints

\* the links of the robot model, base first; joint i moves link i + 1
RobotLinks == <<"base_link", "link1", "tool0">>

\* the joints of the chain between the base and the tip, in chain order
ChainJoints == <<"j1", "j2">>

\* the segments of the tree the forward kinematics solver is built on
ChainSegments == {"link1", "tool0"}

\* measured joint states the hardware can report
MeasuredStates == {
    [j1 |-> [position |-> 0, velocity |-> 0], j2 |-> [position |-> 0, velocity |-> 0]],
    [j1 |-> [position |-> 1, velocity |-> 0], j2 |-> [position |-> 2, velocity |-> 1]],
    [j1 |-> [position |-> 2, velocity |-> 1], j2 |-> [position |-> 1, velocity |-> 0]] }

\* what a read outside a std::vector's elements may yield
Garbage == {-9, 9}


\* the configurations a ros::NodeHandle can offer to init: `present' holds the
\* parameters that exist on the parameter server
GoodConfig == [present |-> {"/robot_description", "robot_base_link", "end_effector_link", "joints"},
               robot_description |-> "arm",
               robot_base_link |-> "base_link",
               end_effector_link |-> "tool0",
               joints |-> <<"j1", "j2">>]

NodeHandles == {GoodConfig}
    \cup {[GoodConfig EXCEPT !.present = @ \ {p}] : p \in GoodConfig.present}
    \cup {[GoodConfig EXCEPT !.robot_description = d] : d \in {"not_urdf", "no_tree"}}
    \cup {[GoodConfig EXCEPT !.end_effector_link = "no_such_link"]}
    \cup {[GoodConfig EXCEPT !.joints = <<"j1", "jx">>]}

\* the hardware interfaces init can be given: the joints each has a handle for
HardwareInterfaces == {{"j1", "j2"}, {"j1"}, {}}

\* what init is called with: the good configuration with every hardware
\* interface, every other configuration with the hardware that has all joints
InitArguments == {<<hw, GoodConfig>> : hw \in HardwareInterfaces}
    \cup {<<{"j1", "j2"}, nh>> : nh \in NodeHandles}

\* the Cartesian errors a compute step can be given
Errors == {Zero6, <<1, 0, 0, 0, 0, 0>>, <<-1, 0, 0, 0, 0, 0>>}

Periods == 1..MaxPeriod

\* the periods a broken scheduler can hand to a compute step: ros::Duration is
\* signed, and nothing keeps the caller from passing zero or a negative one
NonPositivePeriods == {-1, 0}

\* the 6-vectors and frame names the transform utilities are called with
Vectors == {<<1, 2, 3, 4, 5, 6>>}

FrameNames == ChainSegments \cup {"no_such_frame"}

\* a 6x6 matrix is held as its four 3x3 blocks
Tensors == {[topLeft |-> <<1, 2, 0, 0, 3, 0, 0, 0, 4>>, topRight |-> <<0, 1, 0, 0, 0, 0, 2, 0, 0>>,
             bottomLeft |-> <<0, 0, 3, 0, 0, 0, 1, 0, 0>>,
             bottomRight |-> <<2, 0, 0, 0, 1, 1, 0, 0, 5>>]}

---------------------------------------------------------------------------
(* urdf, kdl_parser and KDL as init and the transform utilities use them *)

\* urdf::Model::initString
initString(robot_description) == robot_description \in {"arm", "no_tree"}

\* kdl_parser::treeFromUrdfModel
treeFromUrdfModel(robot_description) == robot_description = "arm"

LinkIndex(link) == CHOOSE k \in 1..Len(RobotLinks) : RobotLinks[k] = link

\* KDL::Tree::getChain: ok is its return value, joints and segments the chain
getChain(base, tip) ==
    LET links == {RobotLinks[k] : k \in 1..Len(RobotLinks)}
    IN  IF base \in links /\ tip \in links /\ LinkIndex(base) <= LinkIndex(tip)
        THEN [ok |-> TRUE,
              joints |-> SubSeq(ChainJoints, LinkIndex(base), LinkIndex(tip) - 1),
              segments |-> {RobotLinks[k] : k \in (LinkIndex(base) + 1)..LinkIndex(tip)}]
        ELSE [ok |-> FALSE, joints |-> <<>>, segments |-> {}]

\* the orientation of a segment of the chain: joint j1 turns about z, j2 about x
SegmentRotation(q, segmentName) ==
    IF segmentName = "link1" THEN RotZ(q[1])
    ELSE IF segmentName = "tool0" THEN MatMul(RotZ(q[1]), RotX(q[2]))
    ELSE Identity

\* KDL::TreeFkSolverPos_recursive::JntToCart(q_in, p_out, segmentName): the
\* value returned and p_out afterwards (p_out is left as it was on an error);
\* only the rotation M of the frame is kept
JntToCart(solver, q_in, p_out, segmentName) ==
    IF Len(q_in) # solver.nrOfJoints THEN [rc |-> -1, p_out |-> p_out]
    ELSE IF segmentName \notin solver.segments THEN [rc |-> -2, p_out |-> p_out]
    ELSE [rc |-> 0, p_out |-> SegmentRotation(q_in, segmentName)]

---------------------------------------------------------------------------
(* ForwardDynamicsSolver and SpatialPIDController *)

PidGains == [p |-> 1, i |-> 1, windup |-> 1]

\* SpatialPIDController::init
SpatialControllerInit == [integral |-> Zero6]

\* SpatialPIDController::operator()(error, period): six independent loops, each
\* with an integral bounded by the anti-windup limit
SpatialControllerUpdate(pid, error, period) ==
    LET integral == [k \in 1..6 |->
            Clamp(pid.integral[k] + error[k] * period, -PidGains.windup, PidGains.windup)]
    IN  [pid |-> [integral |-> integral],
         out |-> [k \in 1..6 |-> PidGains.p * error[k] + PidGains.i * integral[k]]]

\* a default constructed ForwardDynamicsSolver
NoSolver == [upper |-> <<>>, lower |-> <<>>, positions |-> <<>>, velocities |-> <<>>]

\* ForwardDynamicsSolver::init(chain, upper_pos_limits, lower_pos_limits)
ForwardDynamicsInit(chain, upper, lower) ==
    [upper |-> upper, lower |-> lower,
     positions |-> [k \in 1..Len(upper) |-> 0],
     velocities |-> [k \in 1..Len(upper) |-> 0]]

\* ForwardDynamicsSolver::getPositions
getPositions(solver) == solver.positions

\* ForwardDynamicsSolver::setStartState(joint_handles): the simulated positions
\* and velocities become the measured ones of the joints the handles refer to
setStartState(solver, joint_handles, hw_state) ==
    [solver EXCEPT
       !.positions = [k \in DOMAIN solver.positions |->
           IF k <= Len(joint_handles) THEN hw_state[joint_handles[k]].position ELSE @[k]],
       !.velocities = [k \in DOMAIN solver.velocities |->
           IF k <= Len(joint_handles) THEN hw_state[joint_handles[k]].velocity ELSE @[k]]]

\* the joint velocities that a Cartesian velocity maps to: the first joint
\* follows the x component, every other joint runs against it
JointVelocity(input, k) == IF k = 1 THEN input[1] ELSE -input[1]

\* ForwardDynamicsSolver::getJointControlCmds(period, net_force): the joint
\* velocity from the Cartesian input, one integration step, and the clamp to
\* the position limits; a clamped joint reports velocity 0
getJointControlCmds(solver, period, input) ==
    LET n == Len(solver.positions)
        raw == [k \in 1..n |-> solver.positions[k] + JointVelocity(input, k) * period]
        pos == [k \in 1..n |-> Clamp(raw[k], solver.lower[k], solver.upper[k])]
        vel == [k \in 1..n |-> IF pos[k] = raw[k] THEN JointVelocity(input, k) ELSE 0]
    IN  [solver |-> [solver EXCEPT !.positions = pos, !.velocities = vel],
         motion |-> [positions |-> pos, velocities |-> vel]]

---------------------------------------------------------------------------
(* CartesianControllerBase *)

\* a controller as its constructor leaves it, with m_paused (which the
\* constructor does not initialize) holding `paused'
Constructed(paused) ==
    [m_already_initialized |-> FALSE,
     m_paused |-> paused,
     m_robot_base_link |-> "",
     m_end_effector_link |-> "",
     m_joint_names |-> <<>>,
     m_joint_handles |-> <<>>,
     m_forward_dynamics_solver |-> NoSolver,
     m_forward_kinematics_solver |-> [nrOfJoints |-> 0, segments |-> {}],
     m_spatial_controller |-> SpatialControllerInit,
     m_cartesian_input |-> Zero6,
     m_simulated_joint_motion |-> [positions |-> <<>>, velocities |-> <<>>]]

\* a variant of the getParam checks that takes every parameter as loaded
getParamUnchecked(nh, key) == TRUE

\* nh.getParam(key, value): whether the parameter exists
getParam(nh, key) == key \in nh.present

\* the number of handles the loop of lines 116-119 stores before
\* hw->getHandle throws, which it does for a joint the hardware does not have
HandlesStored(names, hw) ==
    IF \A k \in 1..Len(names) : names[k] \in hw THEN Len(names)
    ELSE (CHOOSE k \in 1..Len(names) :
            names[k] \notin hw /\ \A l \in 1..(k - 1) : names[l] \in hw) - 1

\* init past its guard: the configuration is read and the solvers are set up
initConfigure(c, hw, nh) ==
    IF ~getParam(nh, "/robot_description") THEN [c |-> c, ret |-> "false"]
    ELSE IF ~getParam(nh, "robot_base_link") THEN [c |-> c, ret |-> "false"]
    ELSE LET c1 == [c EXCEPT !.m_robot_base_link = nh.robot_base_link] IN
    IF ~getParam(nh, "end_effector_link") THEN [c |-> c1, ret |-> "false"]
    ELSE LET c2 == [c1 EXCEPT !.m_end_effector_link = nh.end_effector_link] IN
    IF ~initString(nh.robot_description) THEN [c |-> c2, ret |-> "false"]
    ELSE IF ~treeFromUrdfModel(nh.robot_description) THEN [c |-> c2, ret |-> "throw"]
    ELSE LET robot_chain == getChain(c2.m_robot_base_link, c2.m_end_effector_link) IN
    IF ~robot_chain.ok THEN [c |-> c2, ret |-> "throw"]
    ELSE IF ~getParam(nh, "joints") THEN [c |-> c2, ret |-> "throw"]
    ELSE LET c3 == [c2 EXCEPT !.m_joint_names = nh.joints] IN
    IF \E k \in 1..Len(c3.m_joint_names) : c3.m_joint_names[k] \notin JointNames
    THEN [c |-> c3, ret |-> "throw"]
    ELSE LET upper_pos_limits == [k \in 1..Len(c3.m_joint_names) |-> RobotJoints[c3.m_joint_names[k]].upper]
             lower_pos_limits == [k \in 1..Len(c3.m_joint_names) |-> RobotJoints[c3.m_joint_names[k]].lower]
             stored == HandlesStored(c3.m_joint_names, hw)
             c4 == [c3 EXCEPT !.m_joint_handles = @ \o SubSeq(c3.m_joint_names, 1, stored)]
         IN
    IF stored < Len(c3.m_joint_names) THEN [c |-> c4, ret |-> "throw"]
    ELSE [c |-> [c4 EXCEPT
                  !.m_forward_dynamics_solver =
                      ForwardDynamicsInit(robot_chain, upper_pos_limits, lower_pos_limits),
                  !.m_forward_kinematics_solver =
                      [nrOfJoints |-> Len(robot_chain.joints),
                       segments |-> robot_chain.segments \cup {"not_relevant"}],
                  !.m_spatial_controller = SpatialControllerInit,
                  !.m_already_initialized = TRUE,
                  !.m_paused = FALSE],
          ret |-> "true"]

\* a variant of init that leaves m_paused as it finds it
initKeepsPaused(c, hw, nh) ==
    IF c.m_already_initialized THEN [c |-> c, ret |-> "true"]
    ELSE LET r == initConfigure(c, hw, nh)
         IN  [c |-> [r.c EXCEPT !.m_paused = c.m_paused], ret |-> r.ret]

\* a variant of init that lacks the guard of lines 41-44
initWithoutGuard(c, hw, nh) == initConfigure(c, hw, nh)

\* init(hw, nh): the controller afterwards and what the caller gets, "true",
\* "false" or "throw" (an exception leaves init)
init(c, hw, nh) ==
    IF c.m_already_initialized THEN [c |-> c, ret |-> "true"]
    ELSE initConfigure(c, hw, nh)

\* a variant of starting that does not copy the joint state
startingWithoutStartState(c, hw_state) == c

\* starting(time)
starting(c, hw_state) ==
    [c EXCEPT !.m_forward_dynamics_solver = setStartState(@, c.m_joint_handles, hw_state)]

\* a variant in which resume re-anchors the simulation as starting does
setStartStateCallsWithResume(op) == IF op \in {"starting", "resume"} THEN 1 ELSE 0

\* how often the body of member function op calls
\* m_forward_dynamics_solver.setStartState: once in starting, and in no other
\* function of the class
setStartStateCalls(op) == IF op = "starting" THEN 1 ELSE 0

\* a variant of pause that also drops the last computed motion
pauseWithReset(c) ==
    [c EXCEPT !.m_paused = TRUE,
              !.m_simulated_joint_motion = [positions |-> <<>>, velocities |-> <<>>]]

\* pause(time)
pause(c) == [c EXCEPT !.m_paused = TRUE]

\* a variant of resume that also resets the simulated joint state
resumeWithReset(c) ==
    [c |-> [c EXCEPT !.m_paused = FALSE,
                     !.m_forward_dynamics_solver.positions = [k \in DOMAIN @ |-> 0],
                     !.m_forward_dynamics_solver.velocities = [k \in DOMAIN @ |-> 0]],
     ret |-> "true"]

\* resume(time)
resume(c) == [c |-> [c EXCEPT !.m_paused = FALSE], ret |-> "true"]

\* element k of a std::vector: a read past its end is undefined and yields g
At(vector, k, g) == IF k \in 1..Len(vector) THEN vector[k] ELSE g

\* the loop of writeJointControlCmds from handle i on: the setCommand calls it
\* makes, in order, each with the joint of the handle and element i of values
RECURSIVE setCommands(_, _, _, _)
setCommands(joint_handles, values, i, g) ==
    IF i > Len(joint_handles) THEN <<>>
    ELSE <<[joint |-> joint_handles[i], value |-> At(values, i, g)]>>
         \o setCommands(joint_handles, values, i + 1, g)

\* writeJointControlCmds of CartesianControllerBase<PositionJointInterface>
writePositionCmds(c, g) ==
    IF c.m_paused THEN <<>>
    ELSE setCommands(c.m_joint_handles, c.m_simulated_joint_motion.positions, 1, g)

\* writeJointControlCmds of CartesianControllerBase<VelocityJointInterface>
writeVelocityCmds(c, g) ==
    IF c.m_paused THEN <<>>
    ELSE setCommands(c.m_joint_handles, c.m_simulated_joint_motion.velocities, 1, g)

\* the specialization of writeJointControlCmds that the instance was built with
writeJointControlCmds(c, interface, g) ==
    IF interface = "PositionJointInterface" THEN writePositionCmds(c, g)
    ELSE writeVelocityCmds(c, g)

\* computeJointControlCmds past its check of m_paused
computeSteps(c, error, period) ==
    LET pid == SpatialControllerUpdate(c.m_spatial_controller, error, period)
        sim == getJointControlCmds(c.m_forward_dynamics_solver, period, pid.out)
    IN  [c EXCEPT !.m_spatial_controller = pid.pid,
                  !.m_cartesian_input = pid.out,
                  !.m_forward_dynamics_solver = sim.solver,
                  !.m_simulated_joint_motion = sim.motion]

\* a variant of computeJointControlCmds that does not look at m_paused
computeWhilePaused(c, error, period) == computeSteps(c, error, period)

\* computeJointControlCmds(error, period)
computeJointControlCmds(c, error, period) ==
    IF c.m_paused THEN c ELSE computeSteps(c, error, period)

\* a transform utility that also clears m_paused
displayMembersUnpaused(c) == [c EXCEPT !.m_paused = FALSE]

\* the member fields after displayInBaseLink or displayInTipLink returned: the
\* three functions assign to their locals only (wrench_kdl, transform_kdl,
\* R_kdl, R, tmp, out), read the solvers and make no setCommand call
displayMembers(c) == c

\* displayInBaseLink(vector, from)
displayInBaseLink(c, vector, from) ==
    LET transform_kdl == JntToCart(c.m_forward_kinematics_solver,
                                   getPositions(c.m_forward_dynamics_solver),
                                   Identity, from).p_out
    IN  RotateWrench(transform_kdl, vector)

\* a variant of the tensor transform that rotates all four 3x3 blocks
displayInBaseLinkTensorAllBlocks(c, tensor, from) ==
    LET R == JntToCart(c.m_forward_kinematics_solver,
                       getPositions(c.m_forward_dynamics_solver),
                       Identity, from).p_out
    IN  [topLeft |-> MatMul(MatMul(R, tensor.topLeft), Transpose(R)),
         topRight |-> MatMul(MatMul(R, tensor.topRight), Transpose(R)),
         bottomLeft |-> MatMul(MatMul(R, tensor.bottomLeft), Transpose(R)),
         bottomRight |-> MatMul(MatMul(R, tensor.bottomRight), Transpose(R))]

\* displayInBaseLink(tensor, from)
displayInBaseLinkTensor(c, tensor, from) ==
    LET R == JntToCart(c.m_forward_kinematics_solver,
                       getPositions(c.m_forward_dynamics_solver),
                       Identity, from).p_out
    IN  [topLeft |-> MatMul(MatMul(R, tensor.topLeft), Transpose(R)),
         topRight |-> Zero3x3,
         bottomLeft |-> Zero3x3,
         bottomRight |-> MatMul(MatMul(R, tensor.bottomRight), Transpose(R))]

\* a variant of displayInTipLink that rotates by M, not by M.Inverse()
displayInTipLinkWithoutInverse(c, vector, to) == displayInBaseLink(c, vector, to)

\* displayInTipLink(vector, to)
displayInTipLink(c, vector, to) ==
    LET transform_kdl == JntToCart(c.m_forward_kinematics_solver,
                                   getPositions(c.m_forward_dynamics_solver),
                                   Identity, to).p_out
    IN  RotateWrench(Inverse(transform_kdl), vector)

---------------------------------------------------------------------------
(* The state machine: the host calls the member functions one at a time.   *)
(* Beside the controller runs the controller `ref' of the same run with    *)
(* every pause, every resume and every call made while paused left out.    *)

Init ==
    /\ HardwareInterface \in {"PositionJointInterface", "VelocityJointInterface"}
    /\ \E paused \in BOOLEAN : ctl = Constructed(paused)
    /\ call = [op |-> "constructor", arg |-> <<>>, ret |-> <<>>, outcome |-> "returned"]
    /\ ref = ctl
    /\ ref_ret = <<>>
    /\ paused_ticks = 0
    /\ computed_since_start = FALSE

\* init(hw, nh), with any configuration and hardware interface
CallInit(hw, nh) ==
    LET r == init(ctl, hw, nh) IN
    /\ Len(r.c.m_joint_handles) <= MaxHandles
    /\ ctl' = r.c
    /\ call' = [op |-> "init", arg |-> <<>>, ret |-> r.ret,
                outcome |-> IF r.ret = "throw" THEN "threw" ELSE "returned"]
    /\ ref' = init(ref, hw, nh).c
    /\ ref_ret' = init(ref, hw, nh).ret
    /\ computed_since_start' = (ctl.m_already_initialized /\ computed_since_start)
    /\ UNCHANGED <<HardwareInterface, paused_ticks>>

\* starting(time), with the joint state the hardware reports at that moment;
\* the host starts only a controller whose init succeeded
CallStarting(hw_state) ==
    /\ ctl.m_already_initialized
    /\ ctl' = starting(ctl, hw_state)
    /\ call' = [op |-> "starting", arg |-> hw_state, ret |-> <<>>, outcome |-> "returned"]
    /\ ref' = starting(ref, hw_state)
    /\ ref_ret' = <<>>
    /\ computed_since_start' = FALSE
    /\ UNCHANGED <<HardwareInterface, paused_ticks>>

\* pause(time)
CallPause ==
    /\ ctl.m_already_initialized
    /\ ctl' = pause(ctl)
    /\ call' = [op |-> "pause", arg |-> <<>>, ret |-> <<>>, outcome |-> "returned"]
    /\ ref_ret' = <<>>
    /\ paused_ticks' = IF ctl.m_paused THEN paused_ticks ELSE 0
    /\ UNCHANGED <<HardwareInterface, ref, computed_since_start>>

\* resume(time)
CallResume ==
    /\ ctl.m_already_initialized
    /\ ctl' = resume(ctl).c
    /\ call' = [op |-> "resume", arg |-> <<>>, ret |-> resume(ctl).ret, outcome |-> "returned"]
    /\ ref_ret' = <<>>
    /\ UNCHANGED <<HardwareInterface, ref, paused_ticks, computed_since_start>>

\* one more call made while paused
CountPausedTick ==
    paused_ticks' = IF ctl.m_paused /\ paused_ticks < MaxPausedTicks
                    THEN paused_ticks + 1 ELSE paused_ticks

\* computeJointControlCmds(error, period)
CallComputeJointControlCmds(error, period) ==
    /\ ctl.m_already_initialized
    /\ ctl' = computeJointControlCmds(ctl, error, period)
    /\ call' = [op |-> "computeJointControlCmds", arg |-> <<>>, ret |-> <<>>,
                outcome |-> "returned"]
    /\ ref' = IF ctl.m_paused THEN ref ELSE computeJointControlCmds(ref, error, period)
    /\ ref_ret' = <<>>
    /\ CountPausedTick
    /\ computed_since_start' = (~ctl.m_paused \/ computed_since_start)
    /\ UNCHANGED HardwareInterface

\* writeJointControlCmds(); g is what a read past the end of the simulated
\* motion's vector yields, in this run and in the run without pause and resume
CallWriteJointControlCmds(g) ==
    /\ ctl.m_already_initialized
    /\ call' = [op |-> "writeJointControlCmds", arg |-> <<>>,
                ret |-> writeJointControlCmds(ctl, HardwareInterface, g),
                outcome |-> "returned"]
    /\ ref_ret' = IF ctl.m_paused THEN <<>>
                  ELSE writeJointControlCmds(ref, HardwareInterface, g)
    /\ CountPausedTick
    /\ UNCHANGED <<HardwareInterface, ctl, ref, computed_since_start>>

\* displayInBaseLink(vector, from)
CallDisplayInBaseLink(vector, from) ==
    /\ ctl.m_already_initialized
    /\ call' = [op |-> "displayInBaseLink", arg |-> [vector |-> vector, frame |-> from],
                ret |-> displayInBaseLink(ctl, vector, from), outcome |-> "returned"]
    /\ ref_ret' = <<>>
    /\ ctl' = displayMembers(ctl)
    /\ UNCHANGED <<HardwareInterface, ref, paused_ticks, computed_since_start>>

\* displayInBaseLink(tensor, from)
CallDisplayInBaseLinkTensor(tensor, from) ==
    /\ ctl.m_already_initialized
    /\ call' = [op |-> "displayInBaseLinkTensor", arg |-> [tensor |-> tensor, frame |-> from],
                ret |-> displayInBaseLinkTensor(ctl, tensor, from), outcome |-> "returned"]
    /\ ref_ret' = <<>>
    /\ ctl' = displayMembers(ctl)
    /\ UNCHANGED <<HardwareInterface, ref, paused_ticks, computed_since_start>>

\* displayInTipLink(vector, to)
CallDisplayInTipLink(vector, to) ==
    /\ ctl.m_already_initialized
    /\ call' = [op |-> "displayInTipLink",
                arg |-> [vector |-> vector, frame |-> to, of_base_link |-> <<>>],
                ret |-> displayInTipLink(ctl, vector, to), outcome |-> "returned"]
    /\ ref_ret' = <<>>
    /\ ctl' = displayMembers(ctl)
    /\ UNCHANGED <<HardwareInterface, ref, paused_ticks, computed_since_start>>

\* displayInTipLink(displayInBaseLink(vector, from), to): the caller hands the
\* vector the last call returned on to displayInTipLink; of_base_link keeps the
\* arguments of that displayInBaseLink call
CallDisplayInTipLinkOfBaseLink(to) ==
    /\ ctl.m_already_initialized
    /\ call.op = "displayInBaseLink"
    /\ call' = [op |-> "displayInTipLink",
                arg |-> [vector |-> call.ret, frame |-> to,
                         of_base_link |-> <<call.arg.vector, call.arg.frame>>],
                ret |-> displayInTipLink(ctl, call.ret, to), outcome |-> "returned"]
    /\ ref_ret' = <<>>
    /\ ctl' = displayMembers(ctl)
    /\ UNCHANGED <<HardwareInterface, ref, paused_ticks, computed_since_start>>

\* the calls of the lifecycle and the control loop
Next ==
    \/ \E a \in InitArguments : CallInit(a[1], a[2])
    \/ \E hw_state \in MeasuredStates : CallStarting(hw_state)
    \/ CallPause
    \/ CallResume
    \/ \E error \in Errors, period \in Periods \cup NonPositivePeriods :
          CallComputeJointControlCmds(error, period)
    \/ \E g \in Garbage : CallWriteJointControlCmds(g)

Spec == Init /\ [][Next]_vars

\* the frame transforms, called between the calls that set or move the
\* simulated joint positions they read (init, starting and
\* computeJointControlCmds), on a paused or a running controller; init is given
\* the hardware that has a handle for every joint, the transforms read no handle
NextFrames ==
    \/ \E nh \in NodeHandles : CallInit({"j1", "j2"}, nh)
    \/ \E hw_state \in MeasuredStates : CallStarting(hw_state)
    \/ \E error \in Errors, period \in Periods : CallComputeJointControlCmds(error, period)
    \/ CallPause
    \/ CallResume
    \/ \E vector \in Vectors, from \in FrameNames : CallDisplayInBaseLink(vector, from)
    \/ \E tensor \in Tensors, from \in FrameNames : CallDisplayInBaseLinkTensor(tensor, from)
    \/ \E vector \in Vectors, to \in FrameNames : CallDisplayInTipLink(vector, to)
    \/ \E to \in FrameNames : CallDisplayInTipLinkOfBaseLink(to)

SpecFrames == Init /\ [][NextFrames]_vars

---------------------------------------------------------------------------
(* The claims *)

\* the simulated motion holds one value for every configured joint: a
\* computeJointControlCmds has filled it
MotionComputed ==
    /\ Len(ctl.m_simulated_joint_motion.positions) = Len(ctl.m_joint_names)
    /\ Len(ctl.m_simulated_joint_motion.velocities) = Len(ctl.m_joint_names)

\* C1: after starting the controller is not paused, also when it was paused
\* before starting was called.
C1_StartingClearsPaused ==
    call.op = "starting" => ~ctl.m_paused

\* C2: a computeJointControlCmds called while paused leaves the simulated
\* motion, the Cartesian input, the PID state and the dynamics solver as they
\* were, and a writeJointControlCmds called while paused makes no setCommand
\* call, on a position and on a velocity controller alike.
C2_PausedTickIsNoOp ==
    [][ctl.m_paused /\ call'.op \in {"computeJointControlCmds", "writeJointControlCmds"}
       => /\ ctl'.m_simulated_joint_motion = ctl.m_simulated_joint_motion
          /\ ctl'.m_cartesian_input = ctl.m_cartesian_input
          /\ ctl'.m_spatial_controller = ctl.m_spatial_controller
          /\ ctl'.m_forward_dynamics_solver = ctl.m_forward_dynamics_solver
          /\ call'.op = "writeJointControlCmds" => call'.ret = <<>>]_vars

\* a tick made while paused on a controller that has a motion to write
C2_Witness ==
    /\ ctl.m_paused
    /\ call.op = "writeJointControlCmds"
    /\ call.ret = <<>>
    /\ paused_ticks >= 2
    /\ MotionComputed
    /\ ctl.m_joint_handles # <<>>

\* C3: the run with pause, N paused ticks and resume reaches the same
\* controller state and emits the same setCommand calls as the run without
\* them: at every moment the controller equals, but for its paused flag, the
\* controller of the run in which every pause, resume and paused tick is left
\* out, and each of its writes emits what that run's write emits.
C3_PauseResumeTransparent ==
    ctl.m_already_initialized =>
        /\ ref = [ctl EXCEPT !.m_paused = FALSE]
        /\ call.op = "writeJointControlCmds" => call.ret = ref_ret

\* a compute that moved the joints, made after a resume that followed at least
\* two paused ticks
C3_Witness ==
    /\ ~ctl.m_paused
    /\ paused_ticks >= 2
    /\ call.op = "computeJointControlCmds"
    /\ MotionComputed
    /\ \E k \in DOMAIN ctl.m_simulated_joint_motion.velocities :
          ctl.m_simulated_joint_motion.velocities[k] # 0

\* C4: an init called on a controller whose init has succeeded returns true
\* and leaves the whole controller as it was, whatever configuration it is
\* offered and whether or not the controller is paused.
C4_InitIdempotent ==
    [][ctl.m_already_initialized /\ call'.op = "init"
       => call'.ret = "true" /\ ctl' = ctl]_vars

\* an init has been called on an initialized controller that is paused (the
\* first successful init leaves it not paused)
C4_Witness ==
    /\ call.op = "init"
    /\ call.ret = "true"
    /\ ctl.m_already_initialized
    /\ ctl.m_paused

CommandedValues ==
    IF HardwareInterface = "PositionJointInterface"
    THEN ctl.m_simulated_joint_motion.positions
    ELSE ctl.m_simulated_joint_motion.velocities

\* every handle got one setCommand call with the simulated motion's value of
\* its index
EveryHandleCommandedOnce ==
    /\ Len(call.ret) = Len(ctl.m_joint_handles)
    /\ \A k \in 1..Len(call.ret) :
          /\ k \in 1..Len(CommandedValues)
          /\ call.ret[k].value = CommandedValues[k]

\* C6: a write that is not paused (and follows a compute) gives every joint
\* handle i exactly one command, positions[i] on a position controller and
\* velocities[i] on a velocity controller, and the command type of the
\* instance never changes.
C6_WriteCommandsEveryHandle ==
    [][/\ HardwareInterface' = HardwareInterface
       /\ (call.op = "writeJointControlCmds" /\ ~ctl.m_paused /\ MotionComputed
              => EveryHandleCommandedOnce)']_vars

\* the limits of a joint as init parsed them from the robot model
WithinLimits(joint, x) == RobotJoints[joint].lower <= x /\ x <= RobotJoints[joint].upper

\* C7: every simulated joint position that getJointControlCmds produced, and
\* every position command written from it, lies within the limits of its joint.
C7_JointLimitsKept ==
    /\ \A k \in 1..Len(ctl.m_simulated_joint_motion.positions) :
          WithinLimits(ctl.m_joint_names[k], ctl.m_simulated_joint_motion.positions[k])
    /\ (/\ call.op = "writeJointControlCmds"
        /\ HardwareInterface = "PositionJointInterface"
        /\ MotionComputed)
       => \A k \in 1..Len(call.ret) : WithinLimits(call.ret[k].joint, call.ret[k].value)

\* the configuration errors of claim C8
ConfigurationError(hw, nh) ==
    \/ nh.present # {"/robot_description", "robot_base_link", "end_effector_link", "joints"}
    \/ nh.robot_description # "arm"
    \/ {nh.robot_base_link, nh.end_effector_link} \notin SUBSET {RobotLinks[k] : k \in 1..Len(RobotLinks)}
    \/ \E k \in 1..Len(nh.joints) : nh.joints[k] \notin JointNames
    \/ \E k \in 1..Len(nh.joints) : nh.joints[k] \notin hw

\* C8: an init that meets a configuration error on a controller that is not
\* initialized reports failure (it returns false or throws) and leaves
\* m_already_initialized false.
C8_ConfigurationErrorFailsInit ==
    [][\A a \in InitArguments :
          ~ctl.m_already_initialized /\ ConfigurationError(a[1], a[2]) /\ CallInit(a[1], a[2])
          => call'.ret \in {"false", "throw"} /\ ~ctl'.m_already_initialized]_vars

\* an init failed on a hardware handle after it had stored another
C8_Witness ==
    /\ call.op = "init"
    /\ call.ret = "throw"
    /\ ~ctl.m_already_initialized
    /\ ctl.m_joint_handles # <<>>

\* C9: a frame transform called with a frame name that is not part of the
\* chain reports a failure to its caller and returns no transformed value.
C9_UnknownFrameReported ==
    (/\ call.op \in {"displayInBaseLink", "displayInBaseLinkTensor", "displayInTipLink"}
     /\ call.arg.frame \notin ctl.m_forward_kinematics_solver.segments)
    => call.outcome # "returned"

\* C10: for every frame F of the chain and every 6-vector v,
\* displayInTipLink(displayInBaseLink(v, F), F) is v, the simulated joint
\* positions being the same in both calls.
C10_RoundTrip ==
    ctl.m_already_initialized =>
        /\ \A v \in Vectors : \A F \in ChainSegments :
              displayInTipLink(ctl, displayInBaseLink(ctl, v, F), F) = v
        /\ (/\ call.op = "displayInTipLink"
            /\ call.arg.of_base_link # <<>>
            /\ call.arg.frame \in ChainSegments)
           => (call.arg.of_base_link[2] = call.arg.frame
                  => call.ret = call.arg.of_base_link[1])

\* displayInTipLink was called with what displayInBaseLink returned for the
\* same frame, a frame that is rotated against the base
C10_Witness ==
    /\ call.op = "displayInTipLink"
    /\ call.arg.of_base_link # <<>>
    /\ call.arg.frame \in ChainSegments
    /\ call.arg.of_base_link[2] = call.arg.frame
    /\ call.arg.vector # call.arg.of_base_link[1]

Running == ctl.m_already_initialized /\ ~ctl.m_paused

C13_PauseResumeChangeOnlyPaused ==
    [][/\ call'.op = "pause" => ctl' = [ctl EXCEPT !.m_paused = TRUE]
       /\ call'.op = "resume" =>
            /\ ctl' = [ctl EXCEPT !.m_paused = FALSE]
            /\ call'.ret = "true"]_vars

\* a resume of a paused controller whose simulation has moved
C13_Witness ==
    /\ call.op = "resume"
    /\ ~ctl.m_paused
    /\ paused_ticks >= 1
    /\ MotionComputed
    /\ ctl.m_spatial_controller # SpatialControllerInit

\* the controller state of the life cycle
ControllerState ==
    IF ~ctl.m_already_initialized THEN "Uninitialized"
    ELSE IF ctl.m_paused THEN "Initialized-Paused"
    ELSE "Initialized-Running"

\* C14: the init that first returns true takes the controller from
\* Uninitialized to Initialized-Running (initialized, not paused), an init
\* that fails leaves it Uninitialized, and no call takes an initialized
\* controller back to Uninitialized.
C14_FirstInitEntersRunning ==
    [][/\ (ControllerState = "Uninitialized" /\ call'.op = "init") =>
            ControllerState' = IF call'.ret = "true" THEN "Initialized-Running"
                               ELSE "Uninitialized"
       /\ ControllerState # "Uninitialized" => ControllerState' # "Uninitialized"]_vars

\* the first successful init has just returned, after an init that failed
C14_Witness ==
    /\ call.op = "init"
    /\ call.ret = "true"
    /\ ControllerState = "Initialized-Running"
    /\ ~MotionComputed
    /\ Len(ctl.m_joint_handles) > Len(ctl.m_joint_names)

C16_HandlesMatchJointNames ==
    ctl.m_already_initialized =>
        /\ Len(ctl.m_joint_handles) = Len(ctl.m_joint_names)
        /\ \A i \in 1..Len(ctl.m_joint_names) : ctl.m_joint_handles[i] = ctl.m_joint_names[i]

\* C17: the commands of a writeJointControlCmds that is not paused come from
\* a motion that computeJointControlCmds has computed since the last starting
\* (or, before any starting, since init): no write emits a motion that is
\* older than the last re-anchoring or that was never computed.
C17_WriteEmitsMotionComputedSinceStart ==
    (call.op = "writeJointControlCmds" /\ call.ret # <<>>) => computed_since_start

\* C18: displayInBaseLink of a 6x6 tensor, for a frame of the chain with
\* rotation R against the base, returns R * B * R^T for the top-left and for
\* the bottom-right 3x3 block B of the input and zero for both off-diagonal
\* blocks, whatever the off-diagonal blocks of the input hold.
C18_TensorBlocksTransformed ==
    (call.op = "displayInBaseLinkTensor" /\ call.arg.frame \in ChainSegments) =>
        LET R == SegmentRotation(getPositions(ctl.m_forward_dynamics_solver), call.arg.frame)
            tensor == call.arg.tensor
        IN  /\ call.ret.topLeft = MatMul(MatMul(R, tensor.topLeft), Transpose(R))
            /\ call.ret.bottomRight = MatMul(MatMul(R, tensor.bottomRight), Transpose(R))
            /\ call.ret.topRight = Zero3x3
            /\ call.ret.bottomLeft = Zero3x3

\* a tensor with off-diagonal coupling was displayed from a frame that is
\* rotated against the base: its diagonal blocks came out changed
C18_Witness ==
    /\ call.op = "displayInBaseLinkTensor"
    /\ call.arg.frame \in ChainSegments
    /\ call.arg.tensor.topRight # Zero3x3
    /\ call.arg.tensor.bottomLeft # Zero3x3
    /\ call.ret.topLeft # call.arg.tensor.topLeft
    /\ call.ret.bottomRight # call.arg.tensor.bottomRight

===========================================================================
